---- MODULE Spec2Model ----
(***************************************************************************)
(* State-machine model of the substratekitties runtime module              *)
(* (src/substratekitties/runtime/src/substratekitties.rs).                 *)
(*                                                                         *)
(* Storage maps are partial functions: a key exists iff it is in the       *)
(* DOMAIN, and a read of a missing key yields the value type's Default,    *)
(* as decl_storage's `map K => V` does.  Every dispatchable call is one    *)
(* action; calls are serialized by the host.                               *)
(***************************************************************************)
EXTENDS Integers, Sequences, FiniteSets, TLC

\* ------------------------------------------------------------------ bounds
\* Largest value of the u64 counters (u64::MAX, scaled down).
U64Max == 3
\* Values random_seed() may return: 0 .. MaxSeed.
MaxSeed == 1
\* Prices and price limits callers pass: 0 .. MaxPrice.
MaxPrice == 1
\* Kitties minted in a run of the full system: at most MaxKitties.
MaxKitties == 2
\* Number of bytes of a T::Hash, and number of values of one byte.
HashLen == 2
ByteBase == 2
\* Generations of the parents a breeding run starts from: 0 .. MaxGen.
MaxGen == 2

\* ------------------------------------------------------------------ types
Accounts == {"Alice", "Bob", "Carol"}
NoAccount == "none"

\* A T::Hash is the number whose base-ByteBase digits are its bytes.
RECURSIVE Pow(_, _)
Pow(b, n) == IF n = 0 THEN 1 ELSE b * Pow(b, n - 1)
HashSpace == Pow(ByteBase, HashLen)
Hashes == 0 .. (HashSpace - 1)
\* <T::Hash as Default>::default(): all bytes zero.
ZeroHash == 0

\* h.as_ref(): the bytes of a hash, first byte first.
as_ref(h) == [i \in 1 .. HashLen |-> (h \div Pow(ByteBase, i - 1)) % ByteBase]
\* The hash whose bytes are bs.
RECURSIVE from_bytes(_)
from_bytes(bs) ==
    IF Len(bs) = 0 THEN 0 ELSE Head(bs) + ByteBase * from_bytes(Tail(bs))

\* SCALE encoding of an AccountId, as the hash input.
Encode(a) == CASE a = "Alice" -> 1 [] a = "Bob" -> 2 [] OTHER -> 3

\* (random_seed, &sender, nonce).using_encoded(Hashing::hash): a fixed
\* function of its three inputs into the hash space; distinct inputs may
\* collide.  The all-zero digest (the Default hash) is not produced.
Hashing(seed, sender, nonce) ==
    1 + ((seed + Encode(sender) + nonce) % (HashSpace - 1))

\* struct Kitty { id, dna, price, gen }
Kitty(id, dna, price, gen) == [id |-> id, dna |-> dna, price |-> price, gen |-> gen]
DefaultKitty == Kitty(ZeroHash, ZeroHash, 0, 0)

\* ------------------------------------------------------------------ storage maps
exists(m, k) == k \in DOMAIN m
insert(m, k, v) == [x \in (DOMAIN m) \cup {k} |-> IF x = k THEN v ELSE m[x]]
remove(m, k) == [x \in (DOMAIN m) \ {k} |-> m[x]]
get(m, k, default) == IF k \in DOMAIN m THEN m[k] ELSE default
EmptyMap == [x \in {} |-> 0]

\* ------------------------------------------------------------------ events
Created(a, h) ==
    [name |-> "Created", a1 |-> a, a2 |-> NoAccount, id |-> h, balance |-> 0]
PriceSet(a, h, b) ==
    [name |-> "PriceSet", a1 |-> a, a2 |-> NoAccount, id |-> h, balance |-> b]
Transferred(a, b, h) ==
    [name |-> "Transferred", a1 |-> a, a2 |-> b, id |-> h, balance |-> 0]
Bought(a, b, h, p) ==
    [name |-> "Bought", a1 |-> a, a2 |-> b, id |-> h, balance |-> p]

VARIABLES
    Kitties,            \* map T::Hash => Kitty
    KittyOwner,         \* map T::Hash => Option<AccountId>
    AllKittiesArray,    \* map u64 => T::Hash
    AllKittiesCount,    \* u64
    AllKittiesIndex,    \* map T::Hash => u64
    OwnedKittiesArray,  \* map (AccountId, u64) => T::Hash
    OwnedKittiesCount,  \* map AccountId => u64
    OwnedKittiesIndex,  \* map T::Hash => u64
    Nonce,              \* u64
    FreeBalance,        \* balances module: free balance of each account
    events,             \* events deposited by the latest call, in order
    last,               \* the latest call: its name and its result
    before              \* history: the two accounts' holdings before the
                        \* latest call, when that call was a successful
                        \* transfer between two different accounts

registry == <<Kitties, KittyOwner, AllKittiesArray, AllKittiesCount,
              AllKittiesIndex, OwnedKittiesArray, OwnedKittiesCount,
              OwnedKittiesIndex, Nonce>>
vars == <<Kitties, KittyOwner, AllKittiesArray, AllKittiesCount,
          AllKittiesIndex, OwnedKittiesArray, OwnedKittiesCount,
          OwnedKittiesIndex, Nonce, FreeBalance, events, last, before>>

\* The storage of the module and of the balances module as one value, so
\* that the helper functions can thread it the way the code's successive
\* storage writes do.
Storage ==
    [Kitties |-> Kitties, KittyOwner |-> KittyOwner,
     AllKittiesArray |-> AllKittiesArray, AllKittiesCount |-> AllKittiesCount,
     AllKittiesIndex |-> AllKittiesIndex,
     OwnedKittiesArray |-> OwnedKittiesArray,
     OwnedKittiesCount |-> OwnedKittiesCount,
     OwnedKittiesIndex |-> OwnedKittiesIndex,
     Nonce |-> Nonce, FreeBalance |-> FreeBalance]

\* The kitty getter, but reading the Default record whatever is stored.
kitty_AlwaysDefault(s, id) == DefaultKitty

\* Getters generated by decl_storage.
kitty(s, id) == get(s.Kitties, id, DefaultKitty)
owner_of(s, id) == get(s.KittyOwner, id, NoAccount)
owned_kitty_count(s, a) == get(s.OwnedKittiesCount, a, 0)

\* u64::checked_add / checked_sub: -1 stands for None.
checked_add(x, y) == IF x + y > U64Max THEN -1 ELSE x + y
checked_sub(x, y) == IF x - y < 0 THEN -1 ELSE x - y

Ok == "Ok"
Panic == "Panic"
Outcome(result, s, evs) == [result |-> result, s |-> s, events |-> evs]

\* ------------------------------------------------------------------ helpers
\* mint, but with the reverse index of the global array written as the new
\* count instead of the slot used.
mint_IndexOffByOne(s, to, kitty_id, new_kitty) ==
    LET owned_count == owned_kitty_count(s, to)
        new_owned_kitty_count == checked_add(owned_count, 1)
        all_kitties_count == s.AllKittiesCount
        new_all_kitties_count == checked_add(all_kitties_count, 1)
    IN  IF exists(s.KittyOwner, kitty_id)
        THEN Outcome("Kitty already exists", s, <<>>)
        ELSE IF new_owned_kitty_count = -1
        THEN Outcome("Overflow adding a new kitty to account balance", s, <<>>)
        ELSE IF new_all_kitties_count = -1
        THEN Outcome("Overflow adding a new kitty to total supply", s, <<>>)
        ELSE Outcome(Ok,
                [s EXCEPT
                   !.Kitties = insert(@, kitty_id, new_kitty),
                   !.KittyOwner = insert(@, kitty_id, to),
                   !.AllKittiesArray = insert(@, all_kitties_count, kitty_id),
                   !.AllKittiesCount = new_all_kitties_count,
                   !.AllKittiesIndex = insert(@, kitty_id, new_all_kitties_count),
                   !.OwnedKittiesArray = insert(@, <<to, owned_count>>, kitty_id),
                   !.OwnedKittiesCount = insert(@, to, new_owned_kitty_count),
                   !.OwnedKittiesIndex = insert(@, kitty_id, owned_count)],
                <<Created(to, kitty_id)>>)

\* mint, but without the check that the id is new.
mint_NoExistsCheck(s, to, kitty_id, new_kitty) ==
    LET owned_count == owned_kitty_count(s, to)
        new_owned_kitty_count == checked_add(owned_count, 1)
        all_kitties_count == s.AllKittiesCount
        new_all_kitties_count == checked_add(all_kitties_count, 1)
    IN  IF new_owned_kitty_count = -1
        THEN Outcome("Overflow adding a new kitty to account balance", s, <<>>)
        ELSE IF new_all_kitties_count = -1
        THEN Outcome("Overflow adding a new kitty to total supply", s, <<>>)
        ELSE Outcome(Ok,
                [s EXCEPT
                   !.Kitties = insert(@, kitty_id, new_kitty),
                   !.KittyOwner = insert(@, kitty_id, to),
                   !.AllKittiesArray = insert(@, all_kitties_count, kitty_id),
                   !.AllKittiesCount = new_all_kitties_count,
                   !.AllKittiesIndex = insert(@, kitty_id, all_kitties_count),
                   !.OwnedKittiesArray = insert(@, <<to, owned_count>>, kitty_id),
                   !.OwnedKittiesCount = insert(@, to, new_owned_kitty_count),
                   !.OwnedKittiesIndex = insert(@, kitty_id, owned_count)],
                <<Created(to, kitty_id)>>)

\* mint, but with the id stored in the owner's sequence at the new count
\* instead of the old one.
mint_OwnedSlotAtNewCount(s, to, kitty_id, new_kitty) ==
    LET owned_count == owned_kitty_count(s, to)
        new_owned_kitty_count == checked_add(owned_count, 1)
        all_kitties_count == s.AllKittiesCount
        new_all_kitties_count == checked_add(all_kitties_count, 1)
    IN  IF exists(s.KittyOwner, kitty_id)
        THEN Outcome("Kitty already exists", s, <<>>)
        ELSE IF new_owned_kitty_count = -1
        THEN Outcome("Overflow adding a new kitty to account balance", s, <<>>)
        ELSE IF new_all_kitties_count = -1
        THEN Outcome("Overflow adding a new kitty to total supply", s, <<>>)
        ELSE Outcome(Ok,
                [s EXCEPT
                   !.Kitties = insert(@, kitty_id, new_kitty),
                   !.KittyOwner = insert(@, kitty_id, to),
                   !.AllKittiesArray = insert(@, all_kitties_count, kitty_id),
                   !.AllKittiesCount = new_all_kitties_count,
                   !.AllKittiesIndex = insert(@, kitty_id, all_kitties_count),
                   !.OwnedKittiesArray = insert(@, <<to, new_owned_kitty_count>>, kitty_id),
                   !.OwnedKittiesCount = insert(@, to, new_owned_kitty_count),
                   !.OwnedKittiesIndex = insert(@, kitty_id, owned_count)],
                <<Created(to, kitty_id)>>)

\* fn mint(to, kitty_id, new_kitty) -> Result
mint(s, to, kitty_id, new_kitty) ==
    LET owned_count == owned_kitty_count(s, to)
        new_owned_kitty_count == checked_add(owned_count, 1)
        all_kitties_count == s.AllKittiesCount
        new_all_kitties_count == checked_add(all_kitties_count, 1)
    IN  IF exists(s.KittyOwner, kitty_id)
        THEN Outcome("Kitty already exists", s, <<>>)
        ELSE IF new_owned_kitty_count = -1
        THEN Outcome("Overflow adding a new kitty to account balance", s, <<>>)
        ELSE IF new_all_kitties_count = -1
        THEN Outcome("Overflow adding a new kitty to total supply", s, <<>>)
        ELSE Outcome(Ok,
                [s EXCEPT
                   !.Kitties = insert(@, kitty_id, new_kitty),
                   !.KittyOwner = insert(@, kitty_id, to),
                   !.AllKittiesArray = insert(@, all_kitties_count, kitty_id),
                   !.AllKittiesCount = new_all_kitties_count,
                   !.AllKittiesIndex = insert(@, kitty_id, all_kitties_count),
                   !.OwnedKittiesArray = insert(@, <<to, owned_count>>, kitty_id),
                   !.OwnedKittiesCount = insert(@, to, new_owned_kitty_count),
                   !.OwnedKittiesIndex = insert(@, kitty_id, owned_count)],
                <<Created(to, kitty_id)>>)

\* The swap block without the swap: the last element is never moved.
SwapLast_NoMove(s, from, kitty_index, new_owned_kitty_count_from) == s

\* The "swap and pop" block of transfer_from (lines 237-242): the arrays
\* after the last element of `from` has been moved into the freed slot.
SwapLast(s, from, kitty_index, new_owned_kitty_count_from) ==
    IF kitty_index # new_owned_kitty_count_from
    THEN LET last_kitty_id ==
                 get(s.OwnedKittiesArray, <<from, new_owned_kitty_count_from>>, ZeroHash)
         IN  [s EXCEPT
                !.OwnedKittiesArray = insert(@, <<from, kitty_index>>, last_kitty_id),
                !.OwnedKittiesIndex = insert(@, last_kitty_id, kitty_index)]
    ELSE s

\* MoveKitty, but the sender's count is not written back.
MoveKitty_KeepFromCount(s, from, to, kitty_id, count_to, new_count_from, new_count_to) ==
    LET s1 == [s EXCEPT !.KittyOwner = insert(@, kitty_id, to)]
        s2 == [s1 EXCEPT !.OwnedKittiesIndex = insert(@, kitty_id, count_to)]
        s3 == [s2 EXCEPT !.OwnedKittiesArray =
                             insert(@, <<to, count_to>>, kitty_id)]
        s4 == [s3 EXCEPT !.OwnedKittiesArray =
                             remove(@, <<from, new_count_from>>)]
    IN  [s4 EXCEPT !.OwnedKittiesCount = insert(@, to, new_count_to)]

\* The storage writes of transfer_from after the swap (lines 245-257), in
\* the order the code makes them (the order matters when from = to).
MoveKitty(s, from, to, kitty_id, count_to, new_count_from, new_count_to) ==
    LET s1 == [s EXCEPT !.KittyOwner = insert(@, kitty_id, to)]
        s2 == [s1 EXCEPT !.OwnedKittiesIndex = insert(@, kitty_id, count_to)]
        s3 == [s2 EXCEPT !.OwnedKittiesArray =
                             insert(@, <<to, count_to>>, kitty_id)]
        s4 == [s3 EXCEPT !.OwnedKittiesArray =
                             remove(@, <<from, new_count_from>>)]
        s5 == [s4 EXCEPT !.OwnedKittiesCount = insert(@, from, new_count_from)]
    IN  [s5 EXCEPT !.OwnedKittiesCount = insert(@, to, new_count_to)]

\* fn transfer_from(from, to, kitty_id) -> Result
transfer_from(s, from, to, kitty_id) ==
    LET owner == owner_of(s, kitty_id)
        owned_kitty_count_from == owned_kitty_count(s, from)
        owned_kitty_count_to == owned_kitty_count(s, to)
        new_owned_kitty_count_to == checked_add(owned_kitty_count_to, 1)
        new_owned_kitty_count_from == checked_sub(owned_kitty_count_from, 1)
        kitty_index == get(s.OwnedKittiesIndex, kitty_id, 0)
    IN  IF owner = NoAccount
        THEN Outcome("No owner for this kitty", s, <<>>)
        ELSE IF owner # from
        THEN Outcome("You do not own this kitty", s, <<>>)
        ELSE IF new_owned_kitty_count_to = -1
        THEN Outcome("Overflow adding a new kitty to account balance", s, <<>>)
        ELSE IF new_owned_kitty_count_from = -1
        THEN Outcome("Overflow removing a new kitty from account balance", s, <<>>)
        ELSE Outcome(Ok,
                MoveKitty(SwapLast(s, from, kitty_index, new_owned_kitty_count_from),
                          from, to, kitty_id, owned_kitty_count_to,
                          new_owned_kitty_count_from, new_owned_kitty_count_to),
                <<Transferred(from, to, kitty_id)>>)

\* <balances::Module<T> as Currency<_>>::transfer(transactor, dest, value):
\* fails when the transactor's free balance is too low or when the ledger
\* rejects the transfer for a reason of its own (accept = FALSE); otherwise
\* moves exactly `value`.
CurrencyTransfer(s, transactor, dest, value, accept) ==
    IF s.FreeBalance[transactor] < value
    THEN Outcome("balance too low to send value", s, <<>>)
    ELSE IF ~accept
    THEN Outcome("transfer rejected by the ledger", s, <<>>)
    ELSE Outcome(Ok,
            [s EXCEPT !.FreeBalance =
                [[@ EXCEPT ![transactor] = @ - value] EXCEPT ![dest] = @ + value]],
            <<>>)

\* ------------------------------------------------------------------ calls
\* What the caller of a dispatchable sees of it: which call, and its result.
Call(op, result) == [op |-> op, result |-> result]

\* The ids in the occupied slots of an account's sequence below its count.
SequenceIdsIn(s, a) ==
    {s.OwnedKittiesArray[k] :
        k \in {x \in DOMAIN s.OwnedKittiesArray :
                  x[1] = a /\ x[2] < owned_kitty_count(s, a)}}
\* The kitties an account holds: the existing ids in its sequence.
HoldingSetIn(s, a) == SequenceIdsIn(s, a) \cap DOMAIN s.Kitties

\* What a client enumerating the account's sequence reads:
\* kitty_of_owner_by_index((a, i)) for i below owned_kitty_count(a).
EnumeratedIn(s, a) ==
    {get(s.OwnedKittiesArray, <<a, i>>, ZeroHash) :
        i \in 0 .. (owned_kitty_count(s, a) - 1)}

\* History of the latest call, kept when it was a successful transfer
\* between two different accounts: the two accounts' counts and holdings
\* before it, and whether it returned the kitty that the call before it
\* had transferred (back).
NoBefore ==
    [active |-> FALSE, back |-> FALSE,
     from |-> NoAccount, to |-> NoAccount, id |-> ZeroHash,
     count_from |-> 0, count_to |-> 0, ids_from |-> {}, ids_to |-> {},
     held_from |-> {}, held_to |-> {}, read_from |-> {}, read_to |-> {}]
Before(s, prev, from, to, id) ==
    [active |-> TRUE,
     back |-> prev.active /\ prev.from = to /\ prev.to = from /\ prev.id = id,
     from |-> from, to |-> to, id |-> id,
     count_from |-> owned_kitty_count(s, from),
     count_to |-> owned_kitty_count(s, to),
     ids_from |-> SequenceIdsIn(s, from), ids_to |-> SequenceIdsIn(s, to),
     held_from |-> HoldingSetIn(s, from), held_to |-> HoldingSetIn(s, to),
     read_from |-> EnumeratedIn(s, from), read_to |-> EnumeratedIn(s, to)]

\* A call returns: its storage writes and its events take effect.
Commit(s, evs) ==
    /\ Kitties' = s.Kitties
    /\ KittyOwner' = s.KittyOwner
    /\ AllKittiesArray' = s.AllKittiesArray
    /\ AllKittiesCount' = s.AllKittiesCount
    /\ AllKittiesIndex' = s.AllKittiesIndex
    /\ OwnedKittiesArray' = s.OwnedKittiesArray
    /\ OwnedKittiesCount' = s.OwnedKittiesCount
    /\ OwnedKittiesIndex' = s.OwnedKittiesIndex
    /\ Nonce' = s.Nonce
    /\ FreeBalance' = s.FreeBalance
    /\ events' = evs

Init ==
    /\ Kitties = EmptyMap
    /\ KittyOwner = EmptyMap
    /\ AllKittiesArray = EmptyMap
    /\ AllKittiesCount = 0
    /\ AllKittiesIndex = EmptyMap
    /\ OwnedKittiesArray = EmptyMap
    /\ OwnedKittiesCount = EmptyMap
    /\ OwnedKittiesIndex = EmptyMap
    /\ Nonce = 0
    /\ FreeBalance = [a \in Accounts |-> IF a = "Alice" THEN MaxPrice ELSE 0]
    /\ events = <<>>
    /\ last = Call("genesis", Ok)
    /\ before = NoBefore

\* create_kitty, but with the nonce incremented before the mint.
create_kitty_call_NonceFirst(s, sender, seed) ==
    LET nonce == s.Nonce
        random_hash == Hashing(seed, sender, nonce)
        new_kitty == Kitty(random_hash, random_hash, 0, 0)
        m == mint([s EXCEPT !.Nonce = @ + 1], sender, random_hash, new_kitty)
    IN  IF m.result # Ok
        THEN Outcome(m.result, [s EXCEPT !.Nonce = @ + 1], <<>>)
        ELSE Outcome(Ok, m.s, m.events)

\* fn create_kitty(origin) -> Result
create_kitty_call(s, sender, seed) ==
    LET nonce == s.Nonce
        random_hash == Hashing(seed, sender, nonce)
        new_kitty == Kitty(random_hash, random_hash, 0, 0)
        m == mint(s, sender, random_hash, new_kitty)
    IN  IF m.result # Ok
        THEN Outcome(m.result, s, <<>>)
        ELSE Outcome(Ok, [m.s EXCEPT !.Nonce = @ + 1], m.events)

create_kitty(sender, seed) ==
    LET r == create_kitty_call(Storage, sender, seed)
    IN  /\ Commit(r.s, r.events)
        /\ last' = Call("create_kitty", r.result)
        /\ before' = NoBefore

\* set_price, but with the price written before the ownership check.
set_price_call_WriteFirst(s, sender, kitty_id, new_price) ==
    LET owner == owner_of(s, kitty_id)
        k == kitty(s, kitty_id)
        written == [s EXCEPT !.Kitties = insert(@, kitty_id, [k EXCEPT !.price = new_price])]
    IN  IF ~exists(s.Kitties, kitty_id)
        THEN Outcome("This cat does not exist", s, <<>>)
        ELSE IF owner = NoAccount
        THEN Outcome("No owner for this kitty", written, <<>>)
        ELSE IF owner # sender
        THEN Outcome("You do not own this cat", written, <<>>)
        ELSE Outcome(Ok, written, <<PriceSet(sender, kitty_id, new_price)>>)

\* fn set_price(origin, kitty_id, new_price) -> Result
set_price_call(s, sender, kitty_id, new_price) ==
    LET owner == owner_of(s, kitty_id)
        k == kitty(s, kitty_id)
    IN  IF ~exists(s.Kitties, kitty_id)
        THEN Outcome("This cat does not exist", s, <<>>)
        ELSE IF owner = NoAccount
        THEN Outcome("No owner for this kitty", s, <<>>)
        ELSE IF owner # sender
        THEN Outcome("You do not own this cat", s, <<>>)
        ELSE Outcome(Ok,
                [s EXCEPT !.Kitties = insert(@, kitty_id, [k EXCEPT !.price = new_price])],
                <<PriceSet(sender, kitty_id, new_price)>>)

set_price(sender, kitty_id, new_price) ==
    LET r == set_price_call(Storage, sender, kitty_id, new_price)
    IN  /\ Commit(r.s, r.events)
        /\ last' = Call("set_price", r.result)
        /\ before' = NoBefore

\* transfer, but moving the kitty on behalf of its owner whoever signs.
transfer_call_AnySigner(s, sender, to, kitty_id) ==
    LET owner == owner_of(s, kitty_id)
    IN  IF owner = NoAccount
        THEN Outcome("No owner for this kitty", s, <<>>)
        ELSE transfer_from(s, owner, to, kitty_id)

\* fn transfer(origin, to, kitty_id) -> Result
transfer_call(s, sender, to, kitty_id) ==
    LET owner == owner_of(s, kitty_id)
    IN  IF owner = NoAccount
        THEN Outcome("No owner for this kitty", s, <<>>)
        ELSE IF owner # sender
        THEN Outcome("You do not own this kitty", s, <<>>)
        ELSE transfer_from(s, sender, to, kitty_id)

transfer(sender, to, kitty_id) ==
    LET r == transfer_call(Storage, sender, to, kitty_id)
    IN  /\ Commit(r.s, r.events)
        /\ last' = Call("transfer", r.result)
        /\ before' = IF r.result = Ok /\ sender # to
                      THEN Before(Storage, before, sender, to, kitty_id)
                      ELSE NoBefore

\* buy_kitty, but with the kitty moved before the funds: a failed funds
\* transfer returns with the registry already written.
buy_kitty_call_MoveFirst(s, sender, kitty_id, max_price, accept) ==
    LET owner == owner_of(s, kitty_id)
        k == kitty(s, kitty_id)
        kitty_price == k.price
        moved == transfer_from(s, owner, sender, kitty_id)
        paid == CurrencyTransfer(moved.s, sender, owner, k.price, accept)
    IN  IF ~exists(s.Kitties, kitty_id)
        THEN Outcome("This cat does not exist", s, <<>>)
        ELSE IF owner = NoAccount
        THEN Outcome("No owner for this kitty", s, <<>>)
        ELSE IF owner # sender
        THEN Outcome("You do not own this kitty", s, <<>>)
        ELSE IF kitty_price = 0
        THEN Outcome("kitty price is zero", s, <<>>)
        ELSE IF ~(kitty_price <= max_price)
        THEN Outcome("kitty is too expensive", s, <<>>)
        ELSE IF moved.result # Ok
        THEN Outcome(Panic, s, <<>>)
        ELSE IF paid.result # Ok
        THEN Outcome(paid.result, moved.s, <<>>)
        ELSE Outcome(Ok,
                [paid.s EXCEPT !.Kitties = insert(@, kitty_id, [k EXCEPT !.price = 0])],
                moved.events \o <<Bought(sender, owner, kitty_id, kitty_price)>>)

\* fn buy_kitty(origin, kitty_id, max_price) -> Result
\* A panic of the `expect` aborts the extrinsic: the host discards all of
\* its storage writes and events.
buy_kitty_call(s, sender, kitty_id, max_price, accept) ==
    LET owner == owner_of(s, kitty_id)
        k == kitty(s, kitty_id)
        kitty_price == k.price
        paid == CurrencyTransfer(s, sender, owner, k.price, accept)
        moved == transfer_from(paid.s, owner, sender, kitty_id)
    IN  IF ~exists(s.Kitties, kitty_id)
        THEN Outcome("This cat does not exist", s, <<>>)
        ELSE IF owner = NoAccount
        THEN Outcome("No owner for this kitty", s, <<>>)
        ELSE IF owner # sender
        THEN Outcome("You do not own this kitty", s, <<>>)
        ELSE IF kitty_price = 0
        THEN Outcome("kitty price is zero", s, <<>>)
        ELSE IF ~(kitty_price <= max_price)
        THEN Outcome("kitty is too expensive", s, <<>>)
        ELSE IF paid.result # Ok
        THEN Outcome(paid.result, s, <<>>)
        ELSE IF moved.result # Ok
        THEN Outcome(Panic, s, <<>>)
        ELSE Outcome(Ok,
                [moved.s EXCEPT !.Kitties = insert(@, kitty_id, [k EXCEPT !.price = 0])],
                moved.events \o <<Bought(sender, owner, kitty_id, kitty_price)>>)

buy_kitty(sender, kitty_id, max_price, accept) ==
    LET r == buy_kitty_call(Storage, sender, kitty_id, max_price, accept)
    IN  /\ Commit(r.s, r.events)
        /\ last' = Call("buy_kitty", r.result)
        /\ before' = NoBefore

\* The splicing loop with the parity test inverted.
Splice_OddTakesSecond(dna_1, dna_2, random_hash) ==
    from_bytes([i \in 1 .. HashLen |->
        IF as_ref(random_hash)[i] % 2 = 0 THEN as_ref(dna_1)[i] ELSE as_ref(dna_2)[i]])

\* The gene splicing loop of breed_kitty (lines 160-166).
Splice(dna_1, dna_2, random_hash) ==
    from_bytes([i \in 1 .. HashLen |->
        IF as_ref(random_hash)[i] % 2 = 0 THEN as_ref(dna_2)[i] ELSE as_ref(dna_1)[i]])

max(a, b) == IF a >= b THEN a ELSE b

\* fn breed_kitty(origin, kitty_id_1, kitty_id_2) -> Result
breed_kitty_call(s, sender, kitty_id_1, kitty_id_2, seed) ==
    LET nonce == s.Nonce
        random_hash == Hashing(seed, sender, nonce)
        kitty_1 == kitty(s, kitty_id_1)
        kitty_2 == kitty(s, kitty_id_2)
        final_dna == Splice(kitty_1.dna, kitty_2.dna, random_hash)
        new_kitty == Kitty(random_hash, final_dna, 0, max(kitty_1.gen, kitty_2.gen) + 1)
        m == mint(s, sender, random_hash, new_kitty)
    IN  IF ~exists(s.Kitties, kitty_id_1)
        THEN Outcome("Cat 1 does not exist", s, <<>>)
        ELSE IF ~exists(s.Kitties, kitty_id_2)
        THEN Outcome("Cat 2 does not exist", s, <<>>)
        ELSE IF m.result # Ok
        THEN Outcome(m.result, s, <<>>)
        ELSE Outcome(Ok, [m.s EXCEPT !.Nonce = @ + 1], m.events)

breed_kitty(sender, kitty_id_1, kitty_id_2, seed) ==
    LET r == breed_kitty_call(Storage, sender, kitty_id_1, kitty_id_2, seed)
    IN  /\ Commit(r.s, r.events)
        /\ last' = Call("breed_kitty", r.result)
        /\ before' = NoBefore

Seeds == 0 .. MaxSeed
Prices == 0 .. MaxPrice
\* The accounts that sign calls and are named as recipients.
Traders == {"Alice", "Bob"}

\* The full system: all five dispatchable calls, with every argument any
\* caller can pass; at most MaxKitties kitties are minted.
Next ==
    \/ \E sender \in Traders, seed \in Seeds :
          AllKittiesCount < MaxKitties /\ create_kitty(sender, seed)
    \/ \E sender \in Traders, kitty_id \in Hashes, new_price \in Prices :
          set_price(sender, kitty_id, new_price)
    \/ \E sender \in Traders, to \in Traders, kitty_id \in Hashes :
          transfer(sender, to, kitty_id)
    \/ \E sender \in Traders, kitty_id \in Hashes, max_price \in Prices,
          accept \in BOOLEAN :
          buy_kitty(sender, kitty_id, max_price, accept)
    \/ \E sender \in Traders, kitty_id_1 \in Hashes, kitty_id_2 \in Hashes,
          seed \in Seeds :
          AllKittiesCount < MaxKitties /\ breed_kitty(sender, kitty_id_1, kitty_id_2, seed)

Spec == Init /\ [][Next]_vars

\* Minting and transferring only, up to the counters' own limit U64Max.
NextEnum ==
    \/ \E sender \in Traders, seed \in Seeds : create_kitty(sender, seed)
    \/ \E sender \in Traders, to \in Traders, kitty_id \in Hashes :
          transfer(sender, to, kitty_id)

SpecEnum == Init /\ [][NextEnum]_vars

\* The storage at genesis, as one value.
Genesis ==
    [Kitties |-> EmptyMap, KittyOwner |-> EmptyMap,
     AllKittiesArray |-> EmptyMap, AllKittiesCount |-> 0,
     AllKittiesIndex |-> EmptyMap,
     OwnedKittiesArray |-> EmptyMap, OwnedKittiesCount |-> EmptyMap,
     OwnedKittiesIndex |-> EmptyMap,
     Nonce |-> 0,
     FreeBalance |-> [a \in Accounts |-> IF a = "Alice" THEN MaxPrice ELSE 0]]

\* The storage is s.
StorageIs(s) ==
    /\ Kitties = s.Kitties
    /\ KittyOwner = s.KittyOwner
    /\ AllKittiesArray = s.AllKittiesArray
    /\ AllKittiesCount = s.AllKittiesCount
    /\ AllKittiesIndex = s.AllKittiesIndex
    /\ OwnedKittiesArray = s.OwnedKittiesArray
    /\ OwnedKittiesCount = s.OwnedKittiesCount
    /\ OwnedKittiesIndex = s.OwnedKittiesIndex
    /\ Nonce = s.Nonce
    /\ FreeBalance = s.FreeBalance

\* The storage with two kitties minted, the first to Alice at nonce 0 and
\* the second to Bob at nonce 1, under the ids the seeds give them.  Their
\* dna and generation are any values: a bred kitty's dna is a byte-wise
\* mix of earlier hashes and its generation counts its ancestors, and in
\* the unscaled hash space earlier breeding can leave any of them.
TwoParents(seed_1, seed_2, dna_1, dna_2, gen_1, gen_2) ==
    LET id_1 == Hashing(seed_1, "Alice", 0)
        id_2 == Hashing(seed_2, "Bob", 1)
        m_1 == mint(Genesis, "Alice", id_1, Kitty(id_1, dna_1, 0, gen_1))
        m_2 == mint([m_1.s EXCEPT !.Nonce = 1], "Bob", id_2, Kitty(id_2, dna_2, 0, gen_2))
    IN  [m_2.s EXCEPT !.Nonce = 2]

\* Breeding runs start with two parents in the registry.
InitBreed ==
    \E seed_1 \in Seeds, seed_2 \in Seeds, dna_1 \in Hashes, dna_2 \in Hashes,
       gen_1 \in 0 .. MaxGen, gen_2 \in 0 .. MaxGen :
        /\ Hashing(seed_1, "Alice", 0) # Hashing(seed_2, "Bob", 1)
        /\ StorageIs(TwoParents(seed_1, seed_2, dna_1, dna_2, gen_1, gen_2))
        /\ events = <<>>
        /\ last = Call("genesis", Ok)
        /\ before = NoBefore

\* Minting only: create_kitty and breed_kitty by any account, up to the
\* counters' own limit U64Max.
NextBreed ==
    \/ \E sender \in Accounts, seed \in Seeds : create_kitty(sender, seed)
    \/ \E sender \in Accounts, kitty_id_1 \in Hashes, kitty_id_2 \in Hashes,
          seed \in Seeds :
          breed_kitty(sender, kitty_id_1, kitty_id_2, seed)

SpecBreed == InitBreed /\ [][NextBreed]_vars

\* Minting by any account and transferring between the traders: the third
\* account holds kitties that no transfer involves.
NextThird ==
    \/ \E sender \in Accounts, seed \in Seeds : create_kitty(sender, seed)
    \/ \E sender \in Traders, to \in Traders, kitty_id \in Hashes :
          transfer(sender, to, kitty_id)

SpecThird == Init /\ [][NextThird]_vars

\* ------------------------------------------------------------------ properties
\* The occupied slots of an account's sequence, and its count.
OwnedSlots(a) == {i \in 0 .. U64Max : exists(OwnedKittiesArray, <<a, i>>)}
OwnedCount(a) == get(OwnedKittiesCount, a, 0)
\* The ids stored in the occupied slots below the account's count.
SequenceIds(a) == SequenceIdsIn(Storage, a)
\* The kitties the account holds.
HoldingSet(a) == HoldingSetIn(Storage, a)

RECURSIVE SumCounts(_)
SumCounts(as) ==
    IF as = {} THEN 0
    ELSE LET a == CHOOSE x \in as : TRUE
         IN  OwnedCount(a) + SumCounts(as \ {a})

Failed(result) == result \notin {Ok, Panic}

\* C1: in every reachable state the sum over all accounts of
\* OwnedKittiesCount equals AllKittiesCount.
C1_SumOfCountsIsTotal == SumCounts(Accounts) = AllKittiesCount

\* C2: for every account the occupied slots of its sequence are exactly
\* 0 .. count-1, each slot i holds an existing kitty owned by the account
\* whose OwnedKittiesIndex is i, and no id occurs in two slots.
C2_OwnedEnumerationConsistent ==
    \A a \in Accounts :
        /\ OwnedSlots(a) = 0 .. (OwnedCount(a) - 1)
        /\ \A i \in OwnedSlots(a) :
              LET id == OwnedKittiesArray[<<a, i>>]
              IN  /\ exists(Kitties, id)
                  /\ owner_of(Storage, id) = a
                  /\ get(OwnedKittiesIndex, id, 0) = i
        /\ \A i, j \in OwnedSlots(a) :
              i # j => OwnedKittiesArray[<<a, i>>] # OwnedKittiesArray[<<a, j>>]

\* C3: AllKittiesArray is occupied exactly at 0 .. AllKittiesCount-1,
\* AllKittiesIndex maps each stored id back to its index, every id in
\* Kitties is at exactly one global index and has a KittyOwner entry.
C3_GlobalEnumerationConsistent ==
    /\ DOMAIN AllKittiesArray = 0 .. (AllKittiesCount - 1)
    /\ \A i \in DOMAIN AllKittiesArray :
          /\ exists(AllKittiesIndex, AllKittiesArray[i])
          /\ AllKittiesIndex[AllKittiesArray[i]] = i
    /\ \A id \in DOMAIN Kitties :
          /\ Cardinality({i \in DOMAIN AllKittiesArray : AllKittiesArray[i] = id}) = 1
          /\ exists(KittyOwner, id)
          /\ KittyOwner[id] \in Accounts
    /\ DOMAIN KittyOwner = DOMAIN Kitties

\* Reached: two kitties exist and the latest call moved one of them.
C3_Witness ==
    /\ AllKittiesCount = 2
    /\ last.op \in {"transfer", "buy_kitty"}
    /\ last.result = Ok

\* C4: a buy_kitty by a buyer other than the owner, of a kitty priced
\* p > 0, with max_price >= p and a balance of at least p (and a ledger
\* that accepts), succeeds: the buyer owns the kitty, its price is 0, and
\* p has moved from the buyer's balance to the seller's.
C4_BuyFromOtherSucceeds ==
    [][\A buyer \in Traders, id \in Hashes, max_price \in Prices :
         LET seller == owner_of(Storage, id)
             p == kitty(Storage, id).price
         IN  ( /\ buy_kitty(buyer, id, max_price, TRUE)
               /\ exists(Kitties, id)
               /\ p > 0
               /\ seller # buyer
               /\ max_price >= p
               /\ FreeBalance[buyer] >= p )
             => ( /\ last'.result = Ok
                  /\ KittyOwner'[id] = buyer
                  /\ Kitties'[id].price = 0
                  /\ FreeBalance'[buyer] = FreeBalance[buyer] - p
                  /\ FreeBalance'[seller] = FreeBalance[seller] + p )]_vars

\* C5: once buy_kitty has passed its checks and the funds have moved, the
\* transfer_from call succeeds: the expect never panics.
C5_BuyNeverPanics == ~(last.op = "buy_kitty" /\ last.result = Panic)

\* C6: every existing id is in the sequence (slots below the count) of
\* exactly one account, and that account is owner_of(id).
C6_OwnerIsUniqueHolder ==
    \A id \in DOMAIN Kitties :
        {a \in Accounts : id \in SequenceIds(a)} = {owner_of(Storage, id)}

\* Reached: three kitties exist, and a transfer has just moved one of them
\* to another account.
C6_Witness ==
    /\ AllKittiesCount = 3
    /\ last.op = "transfer"
    /\ last.result = Ok
    /\ events[1].a1 # events[1].a2

\* C7: a call that returns a failure leaves Kitties, KittyOwner, the
\* arrays, indices and counts, the Nonce and all balances as they were,
\* and deposits no event.
C7_FailureChangesNothing ==
    [][Failed(last'.result) =>
         /\ UNCHANGED <<registry, FreeBalance>>
         /\ events' = <<>>]_vars

\* Reached: a buy_kitty has failed at the funds transfer, the last check.
C7_Witness ==
    /\ last.op = "buy_kitty"
    /\ last.result = "balance too low to send value"

\* C8: buy_kitty on an unknown id fails with the not-found error, on a
\* kitty priced 0 with the not-for-sale error, on a kitty priced above
\* max_price with the too-expensive error, for any buyer, and changes
\* nothing.
C8_BuyErrors ==
    [][\A buyer \in Traders, id \in Hashes, max_price \in Prices, accept \in BOOLEAN :
         LET p == kitty(Storage, id).price
         IN  buy_kitty(buyer, id, max_price, accept) =>
               /\ ~exists(Kitties, id) =>
                     /\ last'.result = "This cat does not exist"
                     /\ UNCHANGED <<registry, FreeBalance>>
               /\ (exists(Kitties, id) /\ p = 0) =>
                     /\ last'.result = "kitty price is zero"
                     /\ UNCHANGED <<registry, FreeBalance>>
               /\ (exists(Kitties, id) /\ p > max_price) =>
                     /\ last'.result = "kitty is too expensive"
                     /\ UNCHANGED <<registry, FreeBalance>>]_vars

\* What a client enumerating the account's sequence reads.
Enumerated(a) == EnumeratedIn(Storage, a)

\* This step is the transfer back of the kitty that the call before it
\* transferred.
TransferredBack ==
    /\ before.active
    /\ last'.op = "transfer"
    /\ last'.result = Ok
    /\ events' = <<Transferred(before.to, before.from, before.id)>>

\* C9: a successful transfer of id from A to B (A # B) followed by the
\* transfer of id from B to A restores owner_of(id) = A, both counts and
\* both holding sets: the kitties each account holds, and the set of ids a
\* client reads when it enumerates each account's sequence.
C9_RoundTripRestores ==
    [][\A b \in {before} :
         TransferredBack =>
           /\ owner_of(Storage, b.id)' = b.from
           /\ OwnedCount(b.from)' = b.count_from
           /\ OwnedCount(b.to)' = b.count_to
           /\ HoldingSet(b.from)' = b.held_from
           /\ HoldingSet(b.to)' = b.held_to
           /\ Enumerated(b.from)' = b.read_from
           /\ Enumerated(b.to)' = b.read_to]_vars

\* Reached: with three kitties minted, a kitty has just been transferred
\* back by the account that had received it in the call before.
C9_Witness ==
    /\ before.back
    /\ AllKittiesCount = 3
    /\ before.count_to >= 2

\* C9 read on the raw storage entries of the two sequences: the round
\* trip restores the set of ids stored in each.
C9_RoundTripRestoresSlots ==
    [][\A b \in {before} :
         TransferredBack =>
           /\ SequenceIds(b.from)' = b.ids_from
           /\ SequenceIds(b.to)' = b.ids_to]_vars

\* C10: a successful transfer of id from `from` to a different account
\* `to` is a swap-and-pop: with idx the slot of id in from's sequence and
\* last the last occupied slot of that sequence, if idx # last the id at
\* last is stored in slot idx and its reverse index becomes idx; slot last
\* is removed; every other slot of from's sequence is as before; id is
\* stored in to's sequence at to's old count.
C10_SwapAndPop ==
    [][\A from \in Traders, to \in Traders, id \in Hashes :
         (transfer(from, to, id) /\ last'.result = Ok /\ from # to) =>
           LET idx == get(OwnedKittiesIndex, id, 0)
               lastI == CHOOSE l \in OwnedSlots(from) : \A i \in OwnedSlots(from) : i <= l
               moved == get(OwnedKittiesArray, <<from, lastI>>, ZeroHash)
               to_old == OwnedCount(to)
           IN  /\ \A i \in 0 .. U64Max :
                     (exists(OwnedKittiesArray, <<from, i>>)
                        /\ OwnedKittiesArray[<<from, i>>] = id) <=> i = idx
               /\ idx <= lastI
               /\ idx # lastI =>
                     /\ <<from, idx>> \in DOMAIN OwnedKittiesArray'
                     /\ OwnedKittiesArray'[<<from, idx>>] = moved
                     /\ moved \in DOMAIN OwnedKittiesIndex'
                     /\ OwnedKittiesIndex'[moved] = idx
               /\ <<from, lastI>> \notin DOMAIN OwnedKittiesArray'
               /\ \A i \in (0 .. U64Max) \ {idx, lastI} :
                     /\ <<from, i>> \in DOMAIN OwnedKittiesArray'
                           <=> <<from, i>> \in DOMAIN OwnedKittiesArray
                     /\ <<from, i>> \in DOMAIN OwnedKittiesArray =>
                           OwnedKittiesArray'[<<from, i>>] = OwnedKittiesArray[<<from, i>>]
               /\ <<to, to_old>> \in DOMAIN OwnedKittiesArray'
               /\ OwnedKittiesArray'[<<to, to_old>>] = id
               /\ \A i \in (0 .. U64Max) \ {to_old} :
                     /\ <<to, i>> \in DOMAIN OwnedKittiesArray'
                           <=> <<to, i>> \in DOMAIN OwnedKittiesArray
                     /\ <<to, i>> \in DOMAIN OwnedKittiesArray =>
                           OwnedKittiesArray'[<<to, i>>] = OwnedKittiesArray[<<to, i>>]]_vars


\* The same with last = OwnedKittiesCount(from) - 1, the slot the code
\* takes for the last one, whether it is occupied or not (a read of an
\* empty slot yields the Default hash).
SwapAndPopAtCount ==
    [][\A from \in Traders, to \in Traders, id \in Hashes :
         (transfer(from, to, id) /\ last'.result = Ok /\ from # to) =>
           LET idx == get(OwnedKittiesIndex, id, 0)
               lastI == OwnedCount(from) - 1
               moved == get(OwnedKittiesArray, <<from, lastI>>, ZeroHash)
               to_old == OwnedCount(to)
           IN  /\ \A i \in 0 .. U64Max :
                     (exists(OwnedKittiesArray, <<from, i>>)
                        /\ OwnedKittiesArray[<<from, i>>] = id) <=> i = idx
               /\ idx <= lastI
               /\ idx # lastI =>
                     /\ <<from, idx>> \in DOMAIN OwnedKittiesArray'
                     /\ OwnedKittiesArray'[<<from, idx>>] = moved
                     /\ moved \in DOMAIN OwnedKittiesIndex'
                     /\ OwnedKittiesIndex'[moved] = idx
               /\ <<from, lastI>> \notin DOMAIN OwnedKittiesArray'
               /\ \A i \in (0 .. U64Max) \ {idx, lastI} :
                     /\ <<from, i>> \in DOMAIN OwnedKittiesArray'
                           <=> <<from, i>> \in DOMAIN OwnedKittiesArray
                     /\ <<from, i>> \in DOMAIN OwnedKittiesArray =>
                           OwnedKittiesArray'[<<from, i>>] = OwnedKittiesArray[<<from, i>>]
               /\ <<to, to_old>> \in DOMAIN OwnedKittiesArray'
               /\ OwnedKittiesArray'[<<to, to_old>>] = id
               /\ \A i \in (0 .. U64Max) \ {to_old} :
                     /\ <<to, i>> \in DOMAIN OwnedKittiesArray'
                           <=> <<to, i>> \in DOMAIN OwnedKittiesArray
                     /\ <<to, i>> \in DOMAIN OwnedKittiesArray =>
                           OwnedKittiesArray'[<<to, i>>] = OwnedKittiesArray[<<to, i>>]]_vars

\* The ids of the global enumeration are pairwise distinct.
GlobalIdsDistinct ==
    \A i, j \in DOMAIN AllKittiesArray :
        i # j => AllKittiesArray[i] # AllKittiesArray[j]

\* A create_kitty or breed_kitty call (the latter with existing parents)
\* whose derived id is already the id of a kitty.
CreateCollides(sender, seed) ==
    /\ exists(Kitties, Hashing(seed, sender, Nonce))
    /\ create_kitty(sender, seed)
BreedCollides(sender, kitty_id_1, kitty_id_2, seed) ==
    /\ exists(Kitties, kitty_id_1)
    /\ exists(Kitties, kitty_id_2)
    /\ exists(Kitties, Hashing(seed, sender, Nonce))
    /\ breed_kitty(sender, kitty_id_1, kitty_id_2, seed)

\* The step is rejected as a collision and changes nothing.
RejectedAsExisting ==
    /\ last'.result = "Kitty already exists"
    /\ UNCHANGED <<registry, FreeBalance>>
    /\ events' = <<>>

\* C11: a mint (from create_kitty or breed_kitty) whose derived id is the
\* id of an existing kitty fails with "Kitty already exists" and changes
\* no state; and in every reachable state the ids in the global
\* enumeration are pairwise distinct.
C11_MintRejectsCollision ==
    /\ []GlobalIdsDistinct
    /\ [][/\ last'.op = "create_kitty" =>
                \A sender \in Traders, seed \in Seeds :
                    CreateCollides(sender, seed) => RejectedAsExisting
          /\ last'.op = "breed_kitty" =>
                \A sender \in Traders, seed \in Seeds,
                   kitty_id_1 \in Hashes, kitty_id_2 \in Hashes :
                    BreedCollides(sender, kitty_id_1, kitty_id_2, seed)
                        => RejectedAsExisting]_vars

\* Reached: a breed_kitty of existing parents has derived an id that was
\* already taken.
C11_Witness ==
    /\ last.op = "breed_kitty"
    /\ last.result = "Kitty already exists"
    /\ AllKittiesCount >= 1

\* Slot i of account a's sequence is the same before and after the step.
SlotUnchanged(a, i) ==
    /\ exists(OwnedKittiesArray', <<a, i>>) <=> exists(OwnedKittiesArray, <<a, i>>)
    /\ exists(OwnedKittiesArray, <<a, i>>) =>
          OwnedKittiesArray'[<<a, i>>] = OwnedKittiesArray[<<a, i>>]

\* The record and the owner of asset id are the same before and after.
AssetUnchanged(id) ==
    /\ exists(Kitties', id) <=> exists(Kitties, id)
    /\ exists(Kitties, id) => Kitties'[id] = Kitties[id]
    /\ exists(KittyOwner', id) <=> exists(KittyOwner, id)
    /\ exists(KittyOwner, id) => KittyOwner'[id] = KittyOwner[id]

\* The effect of a successful mint of id to account `to`.
MintEffect(to, id) ==
    /\ AllKittiesCount' = AllKittiesCount + 1
    /\ get(OwnedKittiesCount', to, 0) = OwnedCount(to) + 1
    /\ exists(KittyOwner', id) /\ KittyOwner'[id] = to
    /\ exists(Kitties', id) /\ Kitties'[id].id = id
    /\ exists(AllKittiesArray', AllKittiesCount)
    /\ AllKittiesArray'[AllKittiesCount] = id
    /\ exists(OwnedKittiesArray', <<to, OwnedCount(to)>>)
    /\ OwnedKittiesArray'[<<to, OwnedCount(to)>>] = id
    /\ \A a \in Accounts \ {to} :
          /\ get(OwnedKittiesCount', a, 0) = OwnedCount(a)
          /\ \A i \in 0 .. U64Max : SlotUnchanged(a, i)
    /\ \A other \in Hashes \ {id} : AssetUnchanged(other)

\* C12: a successful mint to account `to` (by create_kitty or breed_kitty)
\* increases AllKittiesCount and OwnedKittiesCount(to) by one each, sets
\* owner_of(id) = to, stores id at the old global count and at to's old
\* count in to's sequence, and leaves every other account's sequence and
\* count and every other asset's record and owner unchanged; a kitty made
\* by create_kitty has generation 0 and price 0.
C12_MintEffect ==
    [][/\ (last'.op = "create_kitty" /\ last'.result = Ok) =>
             \A sender \in Traders, seed \in Seeds :
                 create_kitty(sender, seed) =>
                     /\ MintEffect(sender, Hashing(seed, sender, Nonce))
                     /\ Kitties'[Hashing(seed, sender, Nonce)].gen = 0
                     /\ Kitties'[Hashing(seed, sender, Nonce)].price = 0
       /\ (last'.op = "breed_kitty" /\ last'.result = Ok) =>
             \A sender \in Traders, seed \in Seeds,
                kitty_id_1 \in Hashes, kitty_id_2 \in Hashes :
                 breed_kitty(sender, kitty_id_1, kitty_id_2, seed) =>
                     MintEffect(sender, Hashing(seed, sender, Nonce))]_vars

\* Reached: a create_kitty has just minted the second kitty, to an account
\* other than the holder of the first.
C12_Witness ==
    /\ last.op = "create_kitty"
    /\ last.result = Ok
    /\ AllKittiesCount = 2
    /\ \E a \in Traders : a # events[1].a1 /\ OwnedCount(a) >= 1

\* The child a successful breed_kitty of parents p1 and p2 stores under
\* the random mask: its fields as the claim states them.
IsChildOf(child, mask, p1, p2) ==
    /\ child.id = mask
    /\ child.price = 0
    /\ child.gen = (IF p1.gen >= p2.gen THEN p1.gen ELSE p2.gen) + 1
    /\ \A i \in 1 .. HashLen :
          as_ref(child.dna)[i] =
              IF as_ref(mask)[i] % 2 = 0
              THEN as_ref(p2.dna)[i]
              ELSE as_ref(p1.dna)[i]

\* C13: in every reachable state, a breed_kitty of two existing parents
\* that succeeds, by any caller, mints to the caller a child with price 0,
\* generation one more than the larger of the parents' generations, id
\* equal to the random mask, and dna that at each byte position is parent
\* 2's byte where the mask byte is even and parent 1's byte where it is
\* odd; a breed_kitty fails with no state change when either parent id
\* does not exist.
C13_BreedChild ==
    \A sender \in Accounts, kitty_id_1 \in Hashes, kitty_id_2 \in Hashes,
       seed \in Seeds :
        LET mask == Hashing(seed, sender, Nonce)
            r == breed_kitty_call(Storage, sender, kitty_id_1, kitty_id_2, seed)
        IN  /\ (exists(Kitties, kitty_id_1) /\ exists(Kitties, kitty_id_2)
                  /\ r.result = Ok) =>
                  /\ ~exists(Kitties, mask)
                  /\ exists(r.s.Kitties, mask)
                  /\ owner_of(r.s, mask) = sender
                  /\ owned_kitty_count(r.s, sender) = OwnedCount(sender) + 1
                  /\ IsChildOf(r.s.Kitties[mask], mask,
                               Kitties[kitty_id_1], Kitties[kitty_id_2])
            /\ ~exists(Kitties, kitty_id_1) =>
                  /\ r.result = "Cat 1 does not exist"
                  /\ r.s = Storage
                  /\ r.events = <<>>
            /\ (exists(Kitties, kitty_id_1) /\ ~exists(Kitties, kitty_id_2)) =>
                  /\ r.result = "Cat 2 does not exist"
                  /\ r.s = Storage
                  /\ r.events = <<>>

\* Reached: a breed_kitty by an account that owns no other kitty has
\* minted a child of two different parents with different generations,
\* whose dna is a mix: it is the dna of neither parent.
C13_Witness ==
    /\ last.op = "breed_kitty"
    /\ last.result = Ok
    /\ AllKittiesCount = 3
    /\ OwnedCount(events[1].a1) = 1
    /\ \E p1 \in DOMAIN Kitties, p2 \in DOMAIN Kitties :
          /\ Kitties[p1].gen < Kitties[p2].gen
          /\ Kitties[events[1].id].gen = Kitties[p2].gen + 1
    /\ \A other \in DOMAIN Kitties \ {events[1].id} :
          Kitties[other].dna # Kitties[events[1].id].dna

\* The price of every existing asset is the same after the step.
PricesUnchanged ==
    \A id \in DOMAIN Kitties :
        exists(Kitties', id) /\ Kitties'[id].price = Kitties[id].price

\* In this state a set_price by a non-owner or on an unknown id fails,
\* and a set_price by the owner succeeds.
SetPriceNeedsOwner ==
    \A sender \in Traders, id \in Hashes, new_price \in Prices :
        LET r == set_price_call(Storage, sender, id, new_price)
        IN  IF exists(Kitties, id) /\ owner_of(Storage, id) = sender
            THEN r.result = Ok
            ELSE Failed(r.result)

\* C14: the price of an asset changes only by a successful set_price of
\* its current owner, which sets it to the given value, and by a
\* successful buy_kitty, which sets it to 0; create_kitty, breed_kitty and
\* transfer leave the price of every existing asset unchanged (a priced
\* asset that is transferred keeps its price), and a set_price by a
\* non-owner or on an unknown id fails and changes no price.
C14_PriceChanges ==
    /\ []SetPriceNeedsOwner
    /\ [][/\ \A id \in DOMAIN Kitties :
                /\ exists(Kitties', id)
                /\ Kitties'[id].price # Kitties[id].price =>
                      \/ /\ last'.op = "set_price"
                         /\ last'.result = Ok
                         /\ events' =
                              <<PriceSet(owner_of(Storage, id), id, Kitties'[id].price)>>
                      \/ /\ last'.op = "buy_kitty"
                         /\ last'.result = Ok
                         /\ Kitties'[id].price = 0
                         /\ events'[2].id = id
          /\ last'.op \in {"create_kitty", "breed_kitty", "transfer"} =>
                PricesUnchanged
          /\ (last'.op = "set_price" /\ last'.result # Ok) => PricesUnchanged
          /\ (last'.op = "set_price" /\ last'.result = Ok) =>
                \A sender \in Traders, id \in Hashes, new_price \in Prices :
                    set_price(sender, id, new_price) =>
                        /\ owner_of(Storage, id) = sender
                        /\ Kitties'[id].price = new_price
          /\ (last'.op = "buy_kitty" /\ last'.result = Ok) =>
                \A sender \in Traders, id \in Hashes, max_price \in Prices :
                    buy_kitty(sender, id, max_price, TRUE) =>
                        Kitties'[id].price = 0]_vars

\* Reached: a kitty priced above 0 has just been transferred to another
\* account, and is still priced.
C14_Witness ==
    /\ last.op = "transfer"
    /\ last.result = Ok
    /\ events[1].a1 # events[1].a2
    /\ Kitties[events[1].id].price > 0

\* C15: assets are never destroyed and the global enumeration is
\* append-only: in every step AllKittiesCount does not decrease, every id
\* stored at a global index stays at that index, every id in Kitties stays
\* in Kitties with the same id, dna and generation, and transfer,
\* set_price and buy_kitty leave AllKittiesArray, AllKittiesIndex and
\* AllKittiesCount unchanged.
C15_AppendOnly ==
    [][/\ AllKittiesCount' >= AllKittiesCount
       /\ \A i \in DOMAIN AllKittiesArray :
             /\ exists(AllKittiesArray', i)
             /\ AllKittiesArray'[i] = AllKittiesArray[i]
       /\ \A id \in DOMAIN Kitties :
             /\ exists(Kitties', id)
             /\ Kitties'[id].id = Kitties[id].id
             /\ Kitties'[id].dna = Kitties[id].dna
             /\ Kitties'[id].gen = Kitties[id].gen
       /\ last'.op \in {"transfer", "set_price", "buy_kitty"} =>
             UNCHANGED <<AllKittiesArray, AllKittiesIndex, AllKittiesCount>>]_vars

\* Reached: with two kitties minted, a buy_kitty has just succeeded and
\* rewritten the record of one of them.
C15_Witness ==
    /\ AllKittiesCount = 2
    /\ last.op = "buy_kitty"
    /\ last.result = Ok

\* In this state a transfer of an unknown id fails as not found, and a
\* transfer by a sender who is not the owner fails as not owner, both with
\* no write and no event.
TransferNeedsOwner ==
    \A sender \in Traders, to \in Traders, id \in Hashes :
        LET r == transfer_call(Storage, sender, to, id)
        IN  /\ ~exists(Kitties, id) =>
                  /\ r.result = "No owner for this kitty"
                  /\ r.s = Storage
                  /\ r.events = <<>>
            /\ (exists(Kitties, id) /\ owner_of(Storage, id) # sender) =>
                  /\ r.result = "You do not own this kitty"
                  /\ r.s = Storage
                  /\ r.events = <<>>

\* C16: the owner of an existing asset changes only through a successful
\* transfer issued by its current owner or a successful buy_kitty; a
\* transfer by a sender who is not the current owner fails (not owner), a
\* transfer of an unknown id fails (not found), both with no state change;
\* create_kitty, breed_kitty and set_price never change the owner of an
\* existing asset.
C16_OwnerChanges ==
    /\ []TransferNeedsOwner
    /\ [][/\ \A id \in DOMAIN KittyOwner :
                /\ exists(KittyOwner', id)
                /\ KittyOwner'[id] # KittyOwner[id] =>
                      /\ last'.result = Ok
                      /\ \/ /\ last'.op = "transfer"
                            /\ events' =
                                 <<Transferred(KittyOwner[id], KittyOwner'[id], id)>>
                         \/ /\ last'.op = "buy_kitty"
                            /\ events'[1] =
                                 Transferred(KittyOwner[id], KittyOwner'[id], id)
          /\ last'.op \in {"create_kitty", "breed_kitty", "set_price"} =>
                \A id \in DOMAIN KittyOwner :
                    exists(KittyOwner', id) /\ KittyOwner'[id] = KittyOwner[id]
          /\ (last'.op = "transfer" /\ last'.result # Ok) =>
                UNCHANGED <<registry, FreeBalance>>]_vars

\* Reached: with two kitties minted, a transfer signed by an account that
\* does not own the kitty has just been refused.
C16_Witness ==
    /\ AllKittiesCount = 2
    /\ last.op = "transfer"
    /\ last.result = "You do not own this kitty"

\* C17: a successful buy_kitty has passed all checks, has moved exactly
\* the asset's price from the buyer to the owner, has transferred the
\* ownership (depositing Transferred(seller, buyer, id)), has reset the
\* price to 0 and has then deposited Bought(buyer, seller, id, price) with
\* the price that was paid, the one before the reset; and no registry
\* store is written before the funds transfer has succeeded: a buy_kitty
\* that does not succeed, the one refused by the ledger included, leaves
\* the registry as it was.
C17_BuyOrder ==
    [][/\ (last'.op = "buy_kitty" /\ last'.result = Ok) =>
             \A buyer \in Traders, id \in Hashes, max_price \in Prices :
                 buy_kitty(buyer, id, max_price, TRUE) =>
                     LET seller == owner_of(Storage, id)
                         price == kitty(Storage, id).price
                     IN  /\ exists(Kitties, id)
                         /\ seller \in Accounts
                         /\ price > 0
                         /\ price <= max_price
                         /\ FreeBalance[buyer] >= price
                         /\ FreeBalance' =
                              [[FreeBalance EXCEPT ![buyer] = @ - price]
                                  EXCEPT ![seller] = @ + price]
                         /\ KittyOwner'[id] = buyer
                         /\ Kitties'[id].price = 0
                         /\ events' = <<Transferred(seller, buyer, id),
                                        Bought(buyer, seller, id, price)>>
       /\ (last'.op = "buy_kitty" /\ last'.result # Ok) =>
             /\ UNCHANGED <<registry, FreeBalance>>
             /\ events' = <<>>]_vars

\* Reached: a buy_kitty has just succeeded.
C17_Witness ==
    /\ last.op = "buy_kitty"
    /\ last.result = Ok
    /\ Len(events) = 2
    /\ events[2].balance > 0

\* The nonce is the number of successful mints so far, within the u64.
NonceCountsMints == Nonce = AllKittiesCount /\ Nonce <= U64Max

\* C18: the Nonce never decreases: a successful create_kitty or
\* breed_kitty increases it by exactly one, and a failed create_kitty or
\* breed_kitty and every transfer, set_price and buy_kitty leave it
\* unchanged; so the nonce counts the successful mints, and no two of them
\* derive their id from the same nonce value.
C18_NonceMonotone ==
    /\ []NonceCountsMints
    /\ [][IF last'.op \in {"create_kitty", "breed_kitty"} /\ last'.result = Ok
          THEN Nonce' = Nonce + 1
          ELSE Nonce' = Nonce]_vars

\* Reached: a create_kitty has failed after an earlier mint, and a
\* nonce of 1 is still in place.
C18_Witness ==
    /\ last.op = "create_kitty"
    /\ Failed(last.result)
    /\ Nonce = 1

\* The ids stored in the occupied slots of an account's sequence.
OccupiedIds(a) == {OwnedKittiesArray[<<a, i>>] : i \in OwnedSlots(a)}

\* C19: a successful transfer whose recipient is the sender (by transfer,
\* or by buy_kitty for an owner buying their own asset) leaves the
\* account's OwnedKittiesCount and the ids in the occupied slots of its
\* sequence unchanged.
C19_SelfTransferIsIdentity ==
    [][\A a \in Traders :
         ( /\ last'.op \in {"transfer", "buy_kitty"}
           /\ last'.result = Ok
           /\ events'[1].name = "Transferred"
           /\ events'[1].a1 = a
           /\ events'[1].a2 = a )
         => ( /\ OwnedCount(a)' = OwnedCount(a)
              /\ OccupiedIds(a)' = OccupiedIds(a) )]_vars

\* The ids whose reverse-index entry is not the same after the step.
IndexWritten ==
    {h \in Hashes :
        \/ exists(OwnedKittiesIndex', h) # exists(OwnedKittiesIndex, h)
        \/ /\ exists(OwnedKittiesIndex, h)
           /\ OwnedKittiesIndex'[h] # OwnedKittiesIndex[h]}

\* The step is the successful transfer of id from `from` to `to`.
Transfers(from, to, id) ==
    /\ last'.op = "transfer"
    /\ last'.result = Ok
    /\ events' = <<Transferred(from, to, id)>>

\* What a transfer between two different accounts leaves alone, and what
\* it does to the two counts.
TransferFrame(from, to) ==
    /\ get(OwnedKittiesCount', from, 0) = OwnedCount(from) - 1
    /\ get(OwnedKittiesCount', to, 0) = OwnedCount(to) + 1
    /\ \A a \in Accounts \ {from, to} :
          /\ get(OwnedKittiesCount', a, 0) = OwnedCount(a)
          /\ \A i \in 0 .. U64Max : SlotUnchanged(a, i)
          /\ \A h \in IndexWritten : owner_of(Storage, h) # a
    /\ UNCHANGED <<Kitties, Nonce, FreeBalance>>

\* C20: a successful transfer of id from `from` to a different account
\* `to` decreases OwnedKittiesCount(from) by one, increases
\* OwnedKittiesCount(to) by one, leaves every third account's sequence,
\* count and reverse indices, every asset record, the Nonce and all
\* balances unchanged, and writes no reverse-index entry other than that
\* of id and that of the id swap-and-pop moves, the one in the last
\* occupied slot of from's sequence.
C20_TransferFrame ==
    [][\A from \in Traders, to \in Traders, id \in Hashes :
         (from # to /\ Transfers(from, to, id)) =>
           LET lastI == CHOOSE l \in OwnedSlots(from) :
                            \A i \in OwnedSlots(from) : i <= l
               moved == OwnedKittiesArray[<<from, lastI>>]
           IN  /\ TransferFrame(from, to)
               /\ IndexWritten \subseteq {id, moved}]_vars

\* The same with the id moved by swap-and-pop taken as what the code reads
\* at slot OwnedKittiesCount(from) - 1, the Default hash when that slot is
\* empty.
TransferFrameAtCount ==
    [][\A from \in Traders, to \in Traders, id \in Hashes :
         (from # to /\ Transfers(from, to, id)) =>
           LET moved == get(OwnedKittiesArray, <<from, OwnedCount(from) - 1>>, ZeroHash)
           IN  /\ TransferFrame(from, to)
               /\ IndexWritten \subseteq {id, moved}]_vars


====
